---------------------------- MODULE Spec2Model ----------------------------
(***************************************************************************)
(* Model of feature_engine.discretisation.jenks.JenksDiscretiser:          *)
(* construction (argument validation), fit (per-column Jenks natural       *)
(* breaks stored in binner_dict_) and transform (bucketing by the stored   *)
(* breakpoints).                                                           *)
(*                                                                         *)
(* Python values are records [t |-> type name, v |-> integer payload]; a   *)
(* bool carries v = 1 (True) or 0 (False), as Python's bool subclasses int.*)
(* A Python object is a function from attribute names to values, so that   *)
(* "has the attribute" is membership in its DOMAIN.                        *)
(***************************************************************************)
EXTENDS Integers, Sequences, FiniteSets, TLC

VARIABLES
    self,    \* the JenksDiscretiser instance: attribute name -> value
    op,      \* the last call: "none", "init", "fit", "transform", "fit_transform"
    args,    \* the constructor's arguments of the last "init" call
    X,       \* the dataframe passed to the last fit / transform call
    X_after, \* the caller's dataframe object as it is after that call
    err,     \* the error kind the last call raised, or NoError
    out,     \* the value the last transform / fit_transform returned
    succeeded,   \* history: some fit call on the instance has returned normally
    ever_stored  \* history: the columns some fit call has stored breakpoints for

vars == <<self, op, args, X, X_after, err, out, succeeded, ever_stored>>

----------------------------------------------------------------------------
(* Bounds of the data explored. *)

\* largest cell value of the generated single-column frames
MaxVal == 3
\* number of rows of the generated single-column training frames
FitRows == 3
\* largest bins value of the instances of SpecJenks (besides the test's 4)
MaxBins == 3

----------------------------------------------------------------------------
(* Python values *)

PyBool(b) == [t |-> "bool", v |-> IF b THEN 1 ELSE 0]
PyInt(i) == [t |-> "int", v |-> i]
\* the non-integer arguments of the tests: 0.1, "hola", (True, False), {"a": True}
PyFloat01 == [t |-> "float", v |-> 0]
PyStrHola == [t |-> "str", v |-> 0]
PyTuple == [t |-> "tuple", v |-> 0]
PyDict == [t |-> "dict", v |-> 0]
PyNone == [t |-> "NoneType", v |-> 0]

\* isinstance(p, int): bool is a subclass of int
isinstance_int(p) == p.t \in {"int", "bool"}
isinstance_bool(p) == p.t = "bool"

\* a missing value of a dataframe cell, and pd.cut's result for a value in no bin
NaN == -1

NoError == "NoError"
NoObject == <<>>
NoFrame == [cols |-> <<>>, data |-> <<>>, dtype |-> <<>>]
NoArgs == [bins |-> PyNone, variables |-> <<>>, return_object |-> PyNone,
           return_boundaries |-> PyNone, precision |-> PyNone]

hasattr(obj, name) == name \in DOMAIN obj
setattr(obj, name, val) ==
    [a \in (DOMAIN obj) \cup {name} |-> IF a = name THEN val ELSE obj[a]]

Range(s) == {s[i] : i \in DOMAIN s}

----------------------------------------------------------------------------
(* JenksDiscretiser.__init__ *)

ErrInvalidConfiguration == "InvalidConfiguration"
ErrDataQuality == "DataQuality"
ErrNotFitted == "NotFitted"
ErrSchemaMismatch == "SchemaMismatch"
ErrKeyError == "KeyError"

\* __init__ with the flags checked against int instead of bool
init_error_flags_as_int(bins, variables, return_object, return_boundaries, precision) ==
    IF ~isinstance_int(return_object) THEN ErrInvalidConfiguration
    ELSE IF ~isinstance_int(return_boundaries) THEN ErrInvalidConfiguration
    ELSE IF ~isinstance_int(precision) \/ precision.v < 1 THEN ErrInvalidConfiguration
    ELSE IF ~isinstance_int(bins) \/ bins.v < 1 THEN ErrInvalidConfiguration
    ELSE NoError

\* the checks of __init__, in the order of the code; NoError when all pass
init_error(bins, variables, return_object, return_boundaries, precision) ==
    IF ~isinstance_bool(return_object) THEN ErrInvalidConfiguration
    ELSE IF ~isinstance_bool(return_boundaries) THEN ErrInvalidConfiguration
    ELSE IF ~isinstance_int(precision) \/ precision.v < 1 THEN ErrInvalidConfiguration
    ELSE IF ~isinstance_int(bins) \/ bins.v < 1 THEN ErrInvalidConfiguration
    ELSE NoError

\* _check_init_parameter_variables: None (written <<>>) or a list of names, kept in order
check_init_parameter_variables(variables) == variables

\* __init__ assigning return_boundaries to both flags
init_object_flags_mixed(bins, variables, return_object, return_boundaries, precision) ==
    [a \in {"return_object", "return_boundaries", "precision", "bins", "variables"} |->
        CASE a = "return_object" -> return_boundaries
          [] a = "return_boundaries" -> return_boundaries
          [] a = "precision" -> precision
          [] a = "bins" -> bins
          [] a = "variables" -> check_init_parameter_variables(variables)]

\* the attributes __init__ assigns
init_object(bins, variables, return_object, return_boundaries, precision) ==
    [a \in {"return_object", "return_boundaries", "precision", "bins", "variables"} |->
        CASE a = "return_object" -> return_object
          [] a = "return_boundaries" -> return_boundaries
          [] a = "precision" -> precision
          [] a = "bins" -> bins
          [] a = "variables" -> check_init_parameter_variables(variables)]

ConfigFields == {"return_object", "return_boundaries", "precision", "bins", "variables"}

Construct(bins, variables, return_object, return_boundaries, precision) ==
    /\ op = "none"
    /\ LET e == init_error(bins, variables, return_object, return_boundaries, precision)
       IN  /\ err' = e
           /\ self' = IF e = NoError
                      THEN init_object(bins, variables, return_object,
                                       return_boundaries, precision)
                      ELSE NoObject
    /\ op' = "init"
    /\ args' = [bins |-> bins, variables |-> variables, return_object |-> return_object,
                return_boundaries |-> return_boundaries, precision |-> precision]
    /\ X' = NoFrame
    /\ X_after' = NoFrame
    /\ out' = NoFrame
    /\ UNCHANGED <<succeeded, ever_stored>>

----------------------------------------------------------------------------
(* The breakpoint classifier: jenkspy.JenksNaturalBreaks *)

RECURSIVE SortSet(_)
SortSet(S) ==
    IF S = {} THEN <<>>
    ELSE LET m == CHOOSE a \in S : \A b \in S : a <= b
         IN  <<m>> \o SortSet(S \ {m})

RECURSIVE Gcd(_, _)
Gcd(a, b) == IF b = 0 THEN a ELSE Gcd(b, a % b)

\* least common multiple of 1..n: the common denominator of the class means
RECURSIVE Scale(_)
Scale(n) == IF n <= 1 THEN 1 ELSE LET s == Scale(n - 1) IN (s * n) \div Gcd(s, n)

RECURSIVE SumOver(_, _, _)
SumOver(x, I, sq) ==
    IF I = {} THEN 0
    ELSE LET i == CHOOSE j \in I : TRUE
         IN  (IF sq THEN x[i] * x[i] ELSE x[i]) + SumOver(x, I \ {i}, sq)

\* sum of squared deviations from the mean of the rows of x with lo <= value <= hi,
\* multiplied by Scale(Len(x))
ClassSSD(x, lo, hi) ==
    LET I == {i \in DOMAIN x : lo <= x[i] /\ x[i] <= hi}
        w == Cardinality(I)
        s1 == SumOver(x, I, FALSE)
        s2 == SumOver(x, I, TRUE)
        D == Scale(Len(x))
    IN  s2 * D - s1 * s1 * (D \div w)

\* the breakpoints of the partition of the sorted distinct values u that cuts after
\* the positions cs: the minimum, then the largest value of each class
BreaksOf(u, cs) ==
    <<u[1]>> \o [j \in 1..Len(cs) |-> u[cs[j]]] \o <<u[Len(u)]>>

\* within-class sum of squared deviations of the partition with breakpoints b
PartitionSSD(x, u, cs) ==
    LET k == Len(cs) + 1
        lo(j) == IF j = 1 THEN u[1] ELSE u[cs[j - 1] + 1]
        hi(j) == IF j = k THEN u[Len(u)] ELSE u[cs[j]]
        RECURSIVE Acc(_)
        Acc(j) == IF j > k THEN 0 ELSE ClassSSD(x, lo(j), hi(j)) + Acc(j + 1)
    IN  Acc(1)

\* jenks_breaks(x, n_classes): the breakpoint sequences of the partitions of the
\* values into n_classes classes with the least within-class sum of squared
\* deviations (more than one on a tie); empty when the values have fewer distinct
\* values than classes, where the classifier raises
jenks_breaks(x, n_classes) ==
    LET u == SortSet(Range(x))
        m == Len(u)
    IN  IF m < n_classes THEN {}
        ELSE LET Cuts == {C \in SUBSET (1..(m - 1)) : Cardinality(C) = n_classes - 1}
                 Scored == {<<PartitionSSD(x, u, SortSet(C)), SortSet(C)>> : C \in Cuts}
                 best == CHOOSE p \in Scored : \A q \in Scored : p[1] <= q[1]
             IN  {BreaksOf(u, p[2]) : p \in {q \in Scored : q[1] = best[1]}}

----------------------------------------------------------------------------
(* Dataframes: the columns in order, the cells of each column, its dtype *)

MkFrame(cols, data) ==
    [cols |-> cols,
     data |-> data,
     dtype |-> [c \in Range(cols) |->
                  IF NaN \in Range(data[c]) THEN "float64" ELSE "int64"]]

Frame1(c, d) == MkFrame(<<c>>, [k \in {c} |-> d])
Frame2(c1, d1, c2, d2) == MkFrame(<<c1, c2>>, [k \in {c1, c2} |-> IF k = c1 THEN d1 ELSE d2])

----------------------------------------------------------------------------
(* BaseDiscretiser.fit and JenksDiscretiser.fit *)

\* the columns the fit works on: the given list, or every numeric column
resolve_variables(obj, frame) ==
    IF obj["variables"] = <<>> THEN frame.cols ELSE obj["variables"]

contains_na(frame, variables) ==
    \E c \in Range(variables) : NaN \in Range(frame.data[c])

\* super().fit(X): resolves the columns, rejects missing values, records the schema
BaseFit(obj, frame) ==
    LET vs == resolve_variables(obj, frame)
    IN  IF ~(Range(vs) \subseteq Range(frame.cols))
        THEN [err |-> ErrKeyError, obj |-> obj]
        ELSE IF contains_na(frame, vs)
        THEN [err |-> ErrDataQuality, obj |-> obj]
        ELSE [err |-> NoError,
              obj |-> setattr(setattr(setattr(obj, "variables_", vs),
                                      "feature_names_in_", frame.cols),
                              "n_features_in_", Len(frame.cols))]

EmptyDict == <<>>

\* binner_dict_[feature] = breaks
dict_set(obj, feature, breaks) ==
    setattr(obj, "binner_dict_", setattr(obj["binner_dict_"], feature, breaks))

\* the loop over self.variables_ from position i on: the classifier's failure on a
\* column ends the call with the entries stored so far
RECURSIVE FitLoop(_, _, _)
FitLoop(obj, frame, i) ==
    IF i > Len(obj["variables_"]) THEN {[err |-> NoError, obj |-> obj]}
    ELSE LET feature == obj["variables_"][i]
             breaks_ == jenks_breaks(frame.data[feature], obj["bins"].v)
         IN  IF breaks_ = {} THEN {[err |-> ErrDataQuality, obj |-> obj]}
             ELSE UNION {FitLoop(dict_set(obj, feature, b), frame, i + 1) : b \in breaks_}

\* fit emptying binner_dict_ before the input is checked
fit_reset_first(obj, frame) ==
    LET base == BaseFit(setattr(obj, "binner_dict_", EmptyDict), frame)
    IN  IF base.err # NoError THEN {base}
        ELSE FitLoop(base.obj, frame, 1)

\* fit writing into the binner_dict_ it finds instead of a new one
fit_keep_dict(obj, frame) ==
    LET base == BaseFit(obj, frame)
    IN  IF base.err # NoError THEN {base}
        ELSE IF hasattr(base.obj, "binner_dict_") THEN FitLoop(base.obj, frame, 1)
        ELSE FitLoop(setattr(base.obj, "binner_dict_", EmptyDict), frame, 1)

\* JenksDiscretiser.fit: the outcomes (error kind and instance afterwards) of fit(X)
fit(obj, frame) ==
    LET base == BaseFit(obj, frame)
    IN  IF base.err # NoError THEN {base}
        ELSE FitLoop(setattr(base.obj, "binner_dict_", EmptyDict), frame, 1)

----------------------------------------------------------------------------
(* BaseDiscretiser.transform *)

is_fitted(obj) == hasattr(obj, "variables_") /\ hasattr(obj, "binner_dict_")

\* pd.cut(..., labels=False, include_lowest=True): the zero-based index of the
\* interval (breaks[i], breaks[i+1]] holding v, the first one closed on the left;
\* NaN when v is in none
bin_index(v, breaks) ==
    LET I == {i \in 1..(Len(breaks) - 1) :
                \/ breaks[i] < v /\ v <= breaks[i + 1]
                \/ i = 1 /\ v = breaks[1]}
    IN  IF I = {} THEN NaN
        ELSE (CHOOSE i \in I : \A j \in I : i <= j) - 1

RECURSIVE Pow10(_)
Pow10(p) == IF p <= 0 THEN 1 ELSE 10 * Pow10(p - 1)

\* the interval label of v: its two boundaries rounded to precision decimal digits,
\* written in units of 10^-precision
bin_label(v, breaks, precision) ==
    LET i == bin_index(v, breaks)
    IN  IF i = NaN THEN <<NaN, NaN>>
        ELSE <<breaks[i + 1] * Pow10(precision), breaks[i + 2] * Pow10(precision)>>

transform_column(obj, x, breaks) ==
    IF obj["return_boundaries"] = PyBool(TRUE)
    THEN [r \in DOMAIN x |-> bin_label(x[r], breaks, obj["precision"].v)]
    ELSE [r \in DOMAIN x |-> bin_index(x[r], breaks)]

transform_dtype(obj, column) ==
    IF obj["return_boundaries"] = PyBool(TRUE) \/ obj["return_object"] = PyBool(TRUE)
    THEN "object"
    ELSE IF NaN \in Range(column) THEN "float64" ELSE "int64"

\* transform(X): the error kind and the returned dataframe
transform(obj, frame) ==
    IF ~is_fitted(obj) THEN [err |-> ErrNotFitted, out |-> NoFrame]
    ELSE IF frame.cols # obj["feature_names_in_"]
    THEN [err |-> ErrSchemaMismatch, out |-> NoFrame]
    ELSE IF contains_na(frame, obj["variables_"])
    THEN [err |-> ErrDataQuality, out |-> NoFrame]
    ELSE IF ~(Range(obj["variables_"]) \subseteq DOMAIN obj["binner_dict_"])
    THEN [err |-> ErrKeyError, out |-> NoFrame]
    ELSE LET data == [c \in Range(frame.cols) |->
                        IF c \in Range(obj["variables_"])
                        THEN transform_column(obj, frame.data[c], obj["binner_dict_"][c])
                        ELSE frame.data[c]]
         IN  [err |-> NoError,
              out |-> [cols |-> frame.cols,
                       data |-> data,
                       dtype |-> [c \in Range(frame.cols) |->
                                    IF c \in Range(obj["variables_"])
                                    THEN transform_dtype(obj, data[c])
                                    ELSE frame.dtype[c]]]]

----------------------------------------------------------------------------
(* The calls on an instance *)

constructed == hasattr(self, "bins")

stored_columns(obj) == IF hasattr(obj, "binner_dict_") THEN DOMAIN obj["binner_dict_"] ELSE {}

\* the history variables after a fit call with outcome r
Record(r) ==
    /\ succeeded' = (succeeded \/ r.err = NoError)
    /\ ever_stored' = ever_stored \cup stored_columns(r.obj)

Fit(frame) ==
    /\ constructed
    /\ \E r \in fit(self, frame) :
          /\ self' = r.obj
          /\ err' = r.err
          /\ Record(r)
    /\ op' = "fit"
    /\ X' = frame
    /\ X_after' = frame
    /\ out' = NoFrame
    /\ UNCHANGED args

\* transform writing the bins into the dataframe it was given
TransformInPlace(frame) ==
    /\ constructed
    /\ LET r == transform(self, frame)
       IN  /\ err' = r.err
           /\ out' = r.out
           /\ X_after' = IF r.err = NoError THEN r.out ELSE frame
    /\ op' = "transform"
    /\ X' = frame
    /\ UNCHANGED <<self, args, succeeded, ever_stored>>

Transform(frame) ==
    /\ constructed
    /\ LET r == transform(self, frame)
       IN  /\ err' = r.err
           /\ out' = r.out
    /\ op' = "transform"
    /\ X' = frame
    /\ X_after' = frame
    /\ UNCHANGED <<self, args, succeeded, ever_stored>>

\* fit_transform(X) is fit(X).transform(X)
FitTransform(frame) ==
    /\ constructed
    /\ \E r \in fit(self, frame) :
          /\ self' = r.obj
          /\ Record(r)
          /\ IF r.err # NoError
             THEN err' = r.err /\ out' = NoFrame
             ELSE LET t == transform(r.obj, frame)
                  IN  err' = t.err /\ out' = t.out
    /\ op' = "fit_transform"
    /\ X' = frame
    /\ X_after' = frame
    /\ UNCHANGED args

----------------------------------------------------------------------------
(* Spec: every constructor argument of the tests, two-column dataframes *)

FlagArgs == {PyBool(TRUE), PyBool(FALSE), PyInt(2), PyFloat01, PyStrHola, PyTuple, PyDict}
NonIntegerArgs == {PyFloat01, PyStrHola, PyTuple, PyDict}
PrecisionArgs == {PyInt(0 - 1), PyInt(0), PyInt(1), PyBool(TRUE), PyBool(FALSE)}
                    \cup NonIntegerArgs
BinsArgs == {PyInt(0 - 1), PyInt(0), PyInt(2), PyBool(TRUE), PyBool(FALSE)}
               \cup NonIntegerArgs
VariablesArgs == {<<>>, <<"b", "a">>}

\* column contents: three distinct values, the minimum alone in its class, a single
\* distinct value, a missing value
ColumnData == {<<0, 1, 3>>, <<4, 0, 3>>, <<2, 2, 2>>, <<1, NaN, 2>>}

Frames ==
    {Frame1(c, d) : c \in {"a", "b"}, d \in ColumnData}
    \cup {Frame2("a", d1, "b", d2) : d1 \in ColumnData, d2 \in ColumnData}

Init ==
    /\ self = NoObject
    /\ op = "none"
    /\ args = NoArgs
    /\ X = NoFrame
    /\ X_after = NoFrame
    /\ err = NoError
    /\ out = NoFrame
    /\ succeeded = FALSE
    /\ ever_stored = {}

Next ==
    \/ \E bins \in BinsArgs, variables \in VariablesArgs, return_object \in FlagArgs,
          return_boundaries \in FlagArgs, precision \in PrecisionArgs :
          Construct(bins, variables, return_object, return_boundaries, precision)
    \/ \E frame \in Frames : Fit(frame)
    \/ \E frame \in Frames : Transform(frame)

Spec == Init /\ [][Next]_vars

----------------------------------------------------------------------------
(* SpecJenks: instances with the default flags on single-column dataframes *)

\* the dataframe of test_fit_and_transform_methods
TestFrame == Frame1("var", <<0, 1, 2, 3, 4, 5, 6, 7, 8, 9, 10, 11>>)
TestBins == 4

JenksBins == (2..MaxBins) \cup {TestBins}

TrainFrames ==
    {Frame1("var", d) : d \in [1..FitRows -> 0..MaxVal]} \cup {TestFrame}

\* one-row dataframes, among them values outside the range a fit has seen
UnseenFrames == {Frame1("var", <<v>>) : v \in 0..(MaxVal + 1)}

InitJenks ==
    /\ \E k \in JenksBins :
          /\ args = [bins |-> PyInt(k), variables |-> <<>>,
                     return_object |-> PyBool(FALSE),
                     return_boundaries |-> PyBool(FALSE), precision |-> PyInt(3)]
          /\ self = init_object(PyInt(k), <<>>, PyBool(FALSE), PyBool(FALSE), PyInt(3))
    /\ op = "init"
    /\ X = NoFrame
    /\ X_after = NoFrame
    /\ err = NoError
    /\ out = NoFrame
    /\ succeeded = FALSE
    /\ ever_stored = {}

NextJenks ==
    \/ \E frame \in TrainFrames : Fit(frame)
    \/ \E frame \in TrainFrames : FitTransform(frame)
    \/ \E frame \in UnseenFrames : Transform(frame)

SpecJenks == InitJenks /\ [][NextJenks]_vars

----------------------------------------------------------------------------
(* Properties *)

IsNoFrame(f) == f.cols = <<>>

CompletelyFitted(obj) ==
    is_fitted(obj) /\ DOMAIN obj["binner_dict_"] = Range(obj["variables_"])

StrictlyIncreasing(b) == \A i \in 1..(Len(b) - 1) : b[i] < b[i + 1]

MinOf(x) == CHOOSE a \in Range(x) : \A b \in Range(x) : a <= b
MaxOf(x) == CHOOSE a \in Range(x) : \A b \in Range(x) : a >= b

SelectedPresent(obj, frame) ==
    Range(resolve_variables(obj, frame)) \subseteq Range(frame.cols)

\* the instance as __init__ left it
Fresh(obj) == [a \in ConfigFields |-> obj[a]]

TestBreaks == <<0, 2, 5, 8, 11>>
TestLabels == <<0, 0, 0, 1, 1, 1, 2, 2, 2, 3, 3, 3>>

\* C1 (as claimed): fit_transform on a column with at least bins distinct values
\* succeeds, stores bins+1 strictly increasing breakpoints from the minimum to the
\* maximum that form a least-squared-deviation partition, and labels each value v
\* with the index i of the interval breaks[i] < v <= breaks[i+1] (the minimum in
\* interval 0); the column 0..11 with bins=4 gives [0,2,5,8,11] and the test's labels.
C1_FitTransformContract ==
    (op = "fit_transform" /\ Cardinality(Range(X.data["var"])) >= self["bins"].v) =>
        /\ err = NoError
        /\ LET k == self["bins"].v
               x == X.data["var"]
               b == self["binner_dict_"]["var"]
               y == out.data["var"]
           IN  /\ Len(b) = k + 1
               /\ StrictlyIncreasing(b)
               /\ b[1] = MinOf(x)
               /\ b[k + 1] = MaxOf(x)
               /\ b \in jenks_breaks(x, k)
               /\ \A r \in DOMAIN x :
                     /\ y[r] \in 0..(k - 1)
                     /\ \/ b[y[r] + 1] < x[r] /\ x[r] <= b[y[r] + 2]
                        \/ y[r] = 0 /\ x[r] = b[1]
               /\ (X = TestFrame /\ k = TestBins) =>
                     /\ b = TestBreaks
                     /\ y = TestLabels
                     /\ self["variables_"] = <<"var">>

\* The end-to-end case of test_fit_and_transform_methods alone.
TestCaseHolds ==
    (op = "fit_transform" /\ X = TestFrame /\ self["bins"].v = TestBins) =>
        /\ err = NoError
        /\ self["binner_dict_"]["var"] = TestBreaks
        /\ out.data["var"] = TestLabels
        /\ self["variables_"] = <<"var">>

TestCaseReached ==
    op = "fit_transform" /\ X = TestFrame /\ self["bins"].v = TestBins /\ err = NoError

\* C2 (as claimed): on an instance on which no fit call has succeeded, transform
\* fails with the not-fitted error and returns nothing.
C2_TransformBeforeSuccessfulFit ==
    (op = "transform" /\ ~succeeded) => (err = ErrNotFitted /\ IsNoFrame(out))

\* C3: a fit call on a dataframe with a missing value in a selected column raises the
\* data-quality error and leaves the instance as it was (no breakpoint stored); a
\* transform call on a successfully fitted instance with a missing value in a column
\* of variables_ raises the data-quality error and returns nothing.
C3_MissingValuesRejected ==
    [][/\ (/\ op' = "fit"
           /\ constructed
           /\ SelectedPresent(self, X')
           /\ contains_na(X', resolve_variables(self, X')))
          => (err' = ErrDataQuality /\ self' = self)
       /\ (/\ op' = "transform"
           /\ succeeded
           /\ is_fitted(self)
           /\ X'.cols = self["feature_names_in_"]
           /\ contains_na(X', self["variables_"]))
          => (err' = ErrDataQuality /\ IsNoFrame(out'))]_vars

C3_Witness ==
    /\ op = "fit"
    /\ err = ErrDataQuality
    /\ SelectedPresent(self, X)
    /\ contains_na(X, resolve_variables(self, X))
    /\ CompletelyFitted(self)

\* C4 (as claimed): a fit call that fails in the classification of a column leaves no
\* binner_dict_ written by that call that holds breakpoints for only some of the
\* selected columns.
C4_FitAllOrNothing ==
    [][(/\ op' = "fit"
        /\ constructed
        /\ err' = ErrDataQuality
        /\ SelectedPresent(self, X')
        /\ ~contains_na(X', resolve_variables(self, X')))
       => ~(/\ stored_columns(self') # {}
            /\ stored_columns(self') # Range(resolve_variables(self, X'))
            /\ stored_columns(self') \subseteq Range(resolve_variables(self, X'))
            /\ \/ ~hasattr(self, "binner_dict_")
               \/ stored_columns(self) # stored_columns(self')
               \/ \E c \in stored_columns(self') :
                     self'["binner_dict_"][c] # self["binner_dict_"][c])]_vars

NotPositiveInteger(p) == p.t # "int" \/ p.v < 1

\* C6 (as claimed): a precision or bins argument that is not an integer (booleans
\* included) or is an integer below 1 makes construction fail with the
\* invalid-configuration error, and no instance exists.
C6_BadNumbersRejected ==
    (op # "none" /\ (NotPositiveInteger(args.precision) \/ NotPositiveInteger(args.bins)))
        => (err = ErrInvalidConfiguration /\ ~constructed)

\* C7: a return_object or return_boundaries argument that is not a bool makes
\* construction fail with the invalid-configuration error, whatever the other
\* arguments are.
C7_NonBooleanFlagsRejected ==
    (op # "none" /\ (args.return_object.t # "bool" \/ args.return_boundaries.t # "bool"))
        => (err = ErrInvalidConfiguration /\ ~constructed)

C7_Witness ==
    /\ op = "init"
    /\ args.return_object = PyInt(2)
    /\ args.return_boundaries.t = "bool"
    /\ args.precision = PyInt(1)
    /\ args.bins = PyInt(2)
    /\ err = ErrInvalidConfiguration

ValidArgs(a) ==
    /\ a.return_object.t = "bool"
    /\ a.return_boundaries.t = "bool"
    /\ a.precision.t = "int" /\ a.precision.v >= 1
    /\ a.bins.t = "int" /\ a.bins.v >= 1

\* C8: with boolean flags and integer precision, bins >= 1 the construction succeeds,
\* the stored return_object, return_boundaries, precision and bins are the arguments,
\* and they stay so after every fit and transform call.
C8_ConfigurationStored ==
    (op # "none" /\ ValidArgs(args)) =>
        /\ constructed
        /\ op = "init" => err = NoError
        /\ \A f \in {"return_object", "return_boundaries", "precision", "bins"} :
              self[f] = args[f]

C8_Witness ==
    /\ op = "transform"
    /\ err = NoError
    /\ succeeded
    /\ ValidArgs(args)
    /\ args.return_object # args.return_boundaries

\* C9 (as claimed): in the default output mode a transform that returns gives every
\* value a bin index in 0..bins-1; a value at or below the fitted minimum gets 0 and
\* a value at or above the fitted maximum gets bins-1.  (Stated for instances
\* whose stored breakpoints are strictly increasing.)
C9_EveryValueBinned ==
    (op = "transform" /\ err = NoError
        /\ StrictlyIncreasing(self["binner_dict_"]["var"])) =>
        LET k == self["bins"].v
            b == self["binner_dict_"]["var"]
            x == X.data["var"]
            y == out.data["var"]
        IN  \A r \in DOMAIN x :
               /\ y[r] \in 0..(k - 1)
               /\ x[r] <= b[1] => y[r] = 0
               /\ x[r] >= b[Len(b)] => y[r] = k - 1

\* C10: after a fit call that returns, the instance is fitted, binner_dict_ has exactly
\* the columns of that call's variables_, each with breakpoints of that call's data,
\* and the instance is one a newly constructed instance of the same configuration
\* can be after fitting the same data.
C10_RefitDiscardsPrior ==
    (op = "fit" /\ err = NoError) =>
        /\ is_fitted(self)
        /\ self["variables_"] = resolve_variables(self, X)
        /\ DOMAIN self["binner_dict_"] = Range(self["variables_"])
        /\ \A c \in Range(self["variables_"]) :
              self["binner_dict_"][c] \in jenks_breaks(X.data[c], self["bins"].v)
        /\ self \in {r.obj : r \in fit(Fresh(self), X)}

C10_Witness ==
    /\ op = "fit"
    /\ err = NoError
    /\ ever_stored # stored_columns(self)

=============================================================================
